---- MODULE Spec2Model ----
(***************************************************************************)
(* Query pipeline of the multi-document RAG system: the /query handler     *)
(* (api/routes.py query_documents), Retriever.retrieve and                 *)
(* AnswerGenerator.generate / _parse_response (rag/answer_generator.py).   *)
(*                                                                         *)
(* A completion text is a sequence of tokens: the triple-backtick marker,  *)
(* a language tag, a run of whitespace, a run of prose, or one JSON value. *)
(* Fence stripping and json.loads work on that sequence.                   *)
(***************************************************************************)
EXTENDS Integers, Sequences, FiniteSets, TLC

\* ------------------------------------------------------------------ bounds
\* longest list the index returns for one query (top_k)
MaxRetrieved == 2
\* longest "sources" list in a completion payload
MaxSources == 2

\* ------------------------------------------------------- program constants
NO_INFO_RESPONSE == "The provided documents do not contain this information."
PLACEHOLDER_KEY == "your_groq_api_key_here"
HTTP_200_OK == 200
HTTP_503_SERVICE_UNAVAILABLE == 503
HTTP_500_INTERNAL_SERVER_ERROR == 500

\* ------------------------------------------------------------ small helpers
SetMin(S) == CHOOSE x \in S : \A y \in S : x <= y
SetMax(S) == CHOOSE x \in S : \A y \in S : x >= y
SeqsUpTo(S, n) == UNION {[1..k -> S] : k \in 0..n}
NoRepeat(s) == \A i, j \in 1..Len(s) : i # j => s[i] # s[j]

\* dict.get(key, default) on a record that lists its present keys in "has"
DictGet(d, key, default) == IF key \in d.has THEN d[key] ELSE default

\* ------------------------------------------------------ the similarity index
\* chunks held by the vector store, keyed by chunk_id (ids are unique there)
IndexedChunks ==
  { [chunk_id |-> "c1", document_name |-> "a.txt",  page_number |-> 1, is_section |-> FALSE],
    [chunk_id |-> "c2", document_name |-> "a.txt",  page_number |-> 2, is_section |-> FALSE],
    [chunk_id |-> "c3", document_name |-> "b.docx", page_number |-> 1, is_section |-> TRUE] }

\* what Retriever.retrieve can return: at most top_k chunks, best first
RetrievedLists == {s \in SeqsUpTo(IndexedChunks, MaxRetrieved) : NoRepeat(s)}

\* exception classes an external collaborator (index, embedding model,
\* generation service) can raise; the repository does not constrain them
UpstreamExceptions == {"RuntimeError", "APIConnectionError"}

\* ------------------------------------------------ completion payloads (JSON)
ItemKeys == {"chunk_id", "document_name", "page"}

\* one element of the payload's "sources" list: an object with some of the
\* keys chunk_id / document_name / page, or a value that is no object.
\* "c1" and "c3" are ids the index holds; "bogus_id" is held by no chunk.
SourceItems ==
  { [kind |-> "dict", has |-> {"chunk_id"} \cup n \cup p, chunk_id |-> c,
     document_name |-> "a.txt", page |-> 9] :
        n \in {{}, {"document_name"}}, p \in {{}, {"page"}}, c \in {"c1"} }
  \cup { [kind |-> "dict", has |-> h, chunk_id |-> "c3",
          document_name |-> "a.txt", page |-> 9] : h \in {{"chunk_id"}, ItemKeys} }
  \cup { [kind |-> "dict", has |-> ItemKeys, chunk_id |-> "bogus_id",
          document_name |-> "a.txt", page |-> 9] }
  \cup { [kind |-> "dict", has |-> {"document_name", "page"}, chunk_id |-> "",
          document_name |-> "a.txt", page |-> 9] }
  \cup { [kind |-> "str", has |-> {}, chunk_id |-> "", document_name |-> "", page |-> 0] }

\* a JSON value: an object with optional "answer" and "sources", or a value
\* that is no object.  sources_kind tells what the "sources" value is.
JsonValue(kind, has, answer, sources_kind, sources) ==
  [kind |-> kind, has |-> has, answer |-> answer,
   sources_kind |-> sources_kind, sources |-> sources]

JsonNull == JsonValue("null", {}, "", "list", <<>>)
JsonArray == JsonValue("array", {}, "", "list", <<>>)

PayloadAnswers == {NO_INFO_RESPONSE, "Paris."}

JsonObjects ==
  { JsonValue("object", {"answer"} \cup hs, a, "list", IF hs = {} THEN <<>> ELSE src) :
        a \in PayloadAnswers, hs \in {{}, {"sources"}},
        src \in SeqsUpTo(SourceItems, MaxSources) }
  \cup { JsonValue("object", {"sources"}, "", "list", src) :
        src \in SeqsUpTo(SourceItems, MaxSources) }
  \cup { JsonValue("object", {}, "", "list", <<>>) }
  \cup { JsonValue("object", {"answer", "sources"}, "Paris.", k, <<>>) : k \in {"null", "str"} }

Payloads == JsonObjects \cup {JsonNull, JsonArray}

\* ------------------------------------------------------- completion texts
Tok(k) == [k |-> k, v |-> JsonNull]
FENCE == Tok("fence")          \* ```
TAG_JSON == Tok("tag_json")    \* the word json right after a fence
TAG_OTHER == Tok("tag_other")  \* another language tag, e.g. python
WS == Tok("ws")                \* a run of whitespace / newlines
PROSE == Tok("prose")          \* a run of text that is no JSON
JsonTok(p) == [k |-> "json", v |-> p]

Bodies == {<<JsonTok(p)>> : p \in Payloads} \cup {<<PROSE>>}

\* the shapes in which the generation service wraps a body
Wrap(shape, body) ==
  CASE shape = "bare"          -> body
    [] shape = "fence_json"    -> <<FENCE, TAG_JSON, WS>> \o body \o <<WS, FENCE>>
    [] shape = "fence_plain"   -> <<FENCE, WS>> \o body \o <<WS, FENCE>>
    [] shape = "fence_other"   -> <<FENCE, TAG_OTHER, WS>> \o body \o <<WS, FENCE>>
    [] shape = "fence_open"    -> <<FENCE, TAG_JSON, WS>> \o body
    [] shape = "prose_fence"   -> <<PROSE, WS, FENCE, TAG_JSON, WS>> \o body \o <<WS, FENCE, WS>>

Shapes == {"bare", "fence_json", "fence_plain", "fence_other", "fence_open", "prose_fence"}

\* a fence with another language tag and a fence that is never closed leave
\* text that is no JSON whatever the body: they are tried with short bodies,
\* and so is the fence with prose before it
ShortBodies == {b \in Bodies : Len(b[1].v.sources) <= 1}

CompletionTexts ==
  {Wrap(sh, b) : sh \in {"bare", "fence_json", "fence_plain"}, b \in Bodies}
    \cup {Wrap(sh, b) : sh \in Shapes \ {"bare", "fence_json", "fence_plain"},
                        b \in ShortBodies}

\* ------------------------------------------------------ string operations
\* str.strip(): drop leading and trailing whitespace
Strip(text) ==
  LET keep == {i \in 1..Len(text) : text[i].k # "ws"}
  IN  IF keep = {} THEN <<>> ELSE SubSeq(text, SetMin(keep), SetMax(keep))

\* "```json" in text
ContainsJsonFence(text) ==
  \E i \in 1..(Len(text) - 1) : text[i].k = "fence" /\ text[i + 1].k = "tag_json"

\* "```" in text
ContainsFence(text) == \E i \in 1..Len(text) : text[i].k = "fence"

FencesFrom(text, from) == {j \in from..Len(text) : text[j].k = "fence"}

\* re.search(r'```json\s*(.*?)\s*```', text, re.DOTALL): the leftmost
\* "```json" that has a later "```"; group(1) is what lies between it and the
\* first such "```", without the whitespace that \s* takes on either side
SearchJsonFence(text) ==
  LET opens == {i \in 1..(Len(text) - 1) :
                   /\ text[i].k = "fence" /\ text[i + 1].k = "tag_json"
                   /\ FencesFrom(text, i + 2) # {}}
  IN  IF opens = {} THEN [found |-> FALSE, group |-> <<>>]
      ELSE LET i == SetMin(opens)
               j == SetMin(FencesFrom(text, i + 2))
           IN  [found |-> TRUE, group |-> Strip(SubSeq(text, i + 2, j - 1))]

\* re.search(r'```\s*(.*?)\s*```', text, re.DOTALL)
SearchFence(text) ==
  LET opens == {i \in 1..Len(text) :
                   text[i].k = "fence" /\ FencesFrom(text, i + 1) # {}}
  IN  IF opens = {} THEN [found |-> FALSE, group |-> <<>>]
      ELSE LET i == SetMin(opens)
               j == SetMin(FencesFrom(text, i + 1))
           IN  [found |-> TRUE, group |-> Strip(SubSeq(text, i + 1, j - 1))]

\* lines 294-306 of _parse_response: remove markdown code blocks if present
StripFence(response_text) ==
  IF ContainsJsonFence(response_text)
    THEN LET m == SearchJsonFence(response_text)
         IN  IF m.found THEN m.group ELSE response_text
  ELSE IF ContainsFence(response_text)
    THEN LET m == SearchFence(response_text)
         IN  IF m.found THEN m.group ELSE response_text
  ELSE response_text

\* json.loads(json_text.strip()): the text is valid JSON exactly when, once
\* stripped, it is one JSON value and nothing else
JsonLoads(json_text) ==
  LET t == Strip(json_text)
  IN  IF Len(t) = 1 /\ t[1].k = "json"
        THEN [ok |-> TRUE, value |-> t[1].v]
        ELSE [ok |-> FALSE, value |-> JsonNull]

\* ------------------------------------------------------- answer generator
SourceReference(document_name, page, chunk_id, is_section) ==
  [document_name |-> document_name, page |-> page,
   chunk_id |-> chunk_id, is_section |-> is_section]

\* what a call ends with: a returned AnswerResponse or a raised exception
Returned(answer, sources) ==
  [status |-> "return", exc |-> "", answer |-> answer, sources |-> sources]
Raised(exc) == [status |-> "raise", exc |-> exc, answer |-> "", sources |-> <<>>]
NoOutcome == [status |-> "none", exc |-> "", answer |-> "", sources |-> <<>>]

\* {chunk.chunk_id: chunk.is_section for chunk in retrieved_chunks}: a later
\* chunk with the same id overwrites an earlier one
\* read with chunk_section_map.get(chunk_id, default)
ChunkSectionMapGet(retrieved_chunks, chunk_id, default) ==
  LET at == {i \in 1..Len(retrieved_chunks) : retrieved_chunks[i].chunk_id = chunk_id}
  IN  IF at = {} THEN default ELSE retrieved_chunks[SetMax(at)].is_section

ValidChunkIds(retrieved_chunks) ==
  {retrieved_chunks[i].chunk_id : i \in 1..Len(retrieved_chunks)}

\* the SourceReference built for one payload source that passed the filter
MakeSource(source, retrieved_chunks) ==
  LET chunk_id == DictGet(source, "chunk_id", "")
  IN  SourceReference(DictGet(source, "document_name", "unknown"),
                      DictGet(source, "page", 0),
                      chunk_id,
                      ChunkSectionMapGet(retrieved_chunks, chunk_id, FALSE))

\* the loop with the membership test left out: every source is kept
RECURSIVE FilterSourcesKeepAll(_, _)
FilterSourcesKeepAll(raw_sources, retrieved_chunks) ==
  IF raw_sources = <<>> THEN <<>>
  ELSE <<MakeSource(Head(raw_sources), retrieved_chunks)>>
         \o FilterSourcesKeepAll(Tail(raw_sources), retrieved_chunks)

\* the loop over raw_sources: keep the sources whose chunk_id was retrieved
RECURSIVE FilterSources(_, _)
FilterSources(raw_sources, retrieved_chunks) ==
  IF raw_sources = <<>> THEN <<>>
  ELSE LET source == Head(raw_sources)
           rest == FilterSources(Tail(raw_sources), retrieved_chunks)
       IN  IF DictGet(source, "chunk_id", "") \in ValidChunkIds(retrieved_chunks)
             THEN <<MakeSource(source, retrieved_chunks)>> \o rest
             ELSE rest

\* an answer left without valid sources is replaced by the refusal
FinalAnswerRefuseUnsourced(answer, sources) ==
  IF sources = <<>> THEN NO_INFO_RESPONSE ELSE answer

\* the answer handed to AnswerResponse once the sources are filtered
\* (lines 334-341: an answer without valid sources is only logged)
FinalAnswer(answer, sources) == answer

\* _parse_response with the JSONDecodeError handler left out
ParseResponseNoFallback(response_text, retrieved_chunks) ==
  LET loaded == JsonLoads(StripFence(response_text))
  IN  IF ~loaded.ok THEN Raised("JSONDecodeError")
      ELSE IF loaded.value.kind # "object" THEN Raised("AttributeError")
      ELSE Returned(DictGet(loaded.value, "answer", NO_INFO_RESPONSE), <<>>)

\* AnswerGenerator._parse_response
parse_response(response_text, retrieved_chunks) ==
  LET loaded == JsonLoads(StripFence(response_text))
      parsed == loaded.value
  IN  IF ~loaded.ok THEN Returned(NO_INFO_RESPONSE, <<>>)      \* except JSONDecodeError
      ELSE IF parsed.kind # "object" THEN Raised("AttributeError")  \* parsed.get
      ELSE LET answer == DictGet(parsed, "answer", NO_INFO_RESPONSE)
               raw_sources == DictGet(parsed, "sources", <<>>)
               kind == IF "sources" \in parsed.has THEN parsed.sources_kind ELSE "list"
           IN  IF kind = "null" THEN Raised("TypeError")        \* for source in None
               ELSE IF kind = "str" THEN Raised("AttributeError") \* "x".get
               ELSE IF \E i \in 1..Len(raw_sources) : raw_sources[i].kind # "dict"
                 THEN Raised("AttributeError")                  \* source.get on a non-dict
               ELSE LET sources == FilterSources(raw_sources, retrieved_chunks)
                    IN  Returned(FinalAnswer(answer, sources), sources)

\* AnswerGenerator.__init__: no client without a real API key
AnswerGeneratorInit(groq_api_key) ==
  IF groq_api_key = "" \/ groq_api_key = PLACEHOLDER_KEY THEN "None" ELSE "Groq"

ApiKeys == {"", PLACEHOLDER_KEY, "gsk_live_key"}

\* generate without the empty-context check
GenerateGuardNoEmptyCheck(the_client, retrieved_chunks) ==
  IF the_client = "None" THEN Raised("RuntimeError") ELSE NoOutcome

\* the head of generate, before the service is called: the result it ends
\* with there, or NoOutcome when it goes on to call the service
GenerateGuard(the_client, retrieved_chunks) ==
  IF the_client = "None" THEN Raised("RuntimeError")
  ELSE IF retrieved_chunks = <<>> THEN Returned(NO_INFO_RESPONSE, <<>>)
  ELSE NoOutcome

\* the handler swallows the error and answers with the refusal
OnGenerateErrorRefuse(exc) == Returned(NO_INFO_RESPONSE, <<>>)

\* the "except Exception: log; raise" around the service call and the parse
OnGenerateError(exc) == Raised(exc)

\* response.choices[0].message.content: a text, or None
NoResponse == [kind |-> "absent", text |-> <<>>]
ServiceResponses ==
  {[kind |-> "text", text |-> t] : t \in CompletionTexts}
    \cup {[kind |-> "none", text |-> <<>>]}

\* lines 222-225: content.strip(), then _parse_response
ExtractAndParse(resp, retrieved_chunks) ==
  IF resp.kind = "none" THEN Raised("AttributeError")      \* None.strip()
  ELSE parse_response(Strip(resp.text), retrieved_chunks)

\* ----------------------------------------------------------- the route
\* isinstance(e, RuntimeError) for the exception classes of the model
IsRuntimeError(exc) == exc = "RuntimeError"

\* the status query_documents answers with, given how its try block ended
QueryStatus(outcome) ==
  IF outcome.status = "return" THEN HTTP_200_OK
  ELSE IF IsRuntimeError(outcome.exc) THEN HTTP_503_SERVICE_UNAVAILABLE
  ELSE HTTP_500_INTERNAL_SERVER_ERROR

\* ------------------------------------------------------------------ state
VARIABLES
  pc,          \* position of the /query handler
  api_key,     \* settings.groq_api_key
  client,      \* AnswerGenerator.client: "None" or "Groq"
  retrieved,   \* the chunks Retriever.retrieve returned for this query
  retr_exc,    \* the exception the retrieval raised, "" if none
  response,    \* what the generation service returned for this query
  svc_exc,     \* the exception the generation service raised, "" if none
  llm_calls,   \* calls made to the generation service for this query
  gen,         \* how generate ended: returned AnswerResponse or raised exception
  http         \* status of the HTTP response, 0 before it is sent

\* the state of the chunker (TextChunker and one chunk_pages call)
VARIABLES
  ck_pc,          \* position in chunk_pages / _chunk_text
  settings,       \* get_settings(): chunk_size and chunk_overlap from the environment
  ctor_args,      \* the arguments TextChunker(...) was constructed with
  chunk_size,     \* self.chunk_size
  chunk_overlap,  \* self.chunk_overlap
  pages,          \* the pages given to chunk_pages
  page_i,         \* position of the page being chunked (1-based), 0 before the call
  text,           \* _chunk_text: the stripped text of that page
  start,          \* _chunk_text: start of the window
  chunk_index,    \* _chunk_text: index of the next chunk of the page
  all_chunks,     \* chunk_pages: the chunks emitted so far
  spans,          \* for each emitted chunk: its page position, index and slice [start, end)
  iters,          \* iterations of the while loop made for the current page
  ck_exc,         \* the exception chunk_pages raised, "" if none
  ck_run,         \* number of the chunk_pages call on this chunker (1, 2, ...)
  prev_chunks     \* what the previous chunk_pages call returned for the same pages

qvars == <<pc, api_key, client, retrieved, retr_exc, response, svc_exc, llm_calls, gen, http>>

cvars == <<ck_pc, settings, ctor_args, chunk_size, chunk_overlap, pages, page_i, text,
           start, chunk_index, all_chunks, spans, iters, ck_exc, ck_run, prev_chunks>>

\* the store and retrieval state: the persisted collection, the collection
\* before the last request, the last request with its answer, the records the
\* index returned to the last search, and the list retrieve built from them
VARIABLES
  collection, prev_collection, last_op, index_results, retrieve_out

svars == <<collection, prev_collection, last_op, index_results, retrieve_out>>

vars == <<qvars, cvars, svars>>

\* the store takes no part
StoreUnused ==
  /\ collection = {}
  /\ prev_collection = {}
  /\ last_op = [kind |-> "unused"]
  /\ index_results = <<>>
  /\ retrieve_out = <<>>

\* the chunker takes no part in a query
ChunkerUnused ==
  /\ ck_pc = "unused"
  /\ settings = [chunk_size |-> 0, chunk_overlap |-> 0]
  /\ ctor_args = <<>>
  /\ chunk_size = 0
  /\ chunk_overlap = 0
  /\ pages = <<>>
  /\ page_i = 0
  /\ text = <<>>
  /\ start = 0
  /\ chunk_index = 0
  /\ all_chunks = <<>>
  /\ spans = <<>>
  /\ iters = 0
  /\ ck_exc = ""
  /\ ck_run = 0
  /\ prev_chunks = <<>>

Init ==
  /\ pc = "start"
  /\ api_key \in ApiKeys
  /\ client = AnswerGeneratorInit(api_key)
  /\ retrieved = <<>>
  /\ retr_exc = ""
  /\ response = NoResponse
  /\ svc_exc = ""
  /\ llm_calls = 0
  /\ gen = NoOutcome
  /\ http = 0
  /\ ChunkerUnused
  /\ StoreUnused

\* retriever.retrieve(...) returns the chunks the index found
Retrieve ==
  /\ pc = "start"
  /\ \E chunks \in RetrievedLists : retrieved' = chunks
  /\ pc' = "retrieved"
  /\ UNCHANGED <<api_key, client, retr_exc, response, svc_exc, llm_calls, gen, http, cvars, svars>>

\* retriever.retrieve(...) fails in the index or the embedding model
RetrieveFails ==
  /\ pc = "start"
  /\ \E e \in UpstreamExceptions : retr_exc' = e
  /\ pc' = "failed"
  /\ UNCHANGED <<api_key, client, retrieved, response, svc_exc, llm_calls, gen, http, cvars, svars>>

\* generate ends before the service call: no client, or no chunks
GenerateEarlyExit ==
  /\ pc = "retrieved"
  /\ GenerateGuard(client, retrieved).status # "none"
  /\ gen' = GenerateGuard(client, retrieved)
  /\ pc' = "generated"
  /\ UNCHANGED <<api_key, client, retrieved, retr_exc, response, svc_exc, llm_calls, http, cvars, svars>>

\* generate calls the service, which returns a completion
CallService ==
  /\ pc = "retrieved"
  /\ GenerateGuard(client, retrieved).status = "none"
  /\ llm_calls' = llm_calls + 1
  /\ \E r \in ServiceResponses : response' = r
  /\ pc' = "called"
  /\ UNCHANGED <<api_key, client, retrieved, retr_exc, svc_exc, gen, http, cvars, svars>>

\* generate calls the service, which fails
CallServiceFails ==
  /\ pc = "retrieved"
  /\ GenerateGuard(client, retrieved).status = "none"
  /\ llm_calls' = llm_calls + 1
  /\ \E e \in UpstreamExceptions :
        /\ svc_exc' = e
        /\ gen' = OnGenerateError(e)
  /\ pc' = "generated"
  /\ UNCHANGED <<api_key, client, retrieved, retr_exc, response, http, cvars, svars>>

\* generate parses the completion and returns, or the parse raises
ParseResponse ==
  /\ pc = "called"
  /\ LET out == ExtractAndParse(response, retrieved)
     IN  gen' = IF out.status = "raise" THEN OnGenerateError(out.exc) ELSE out
  /\ pc' = "generated"
  /\ UNCHANGED <<api_key, client, retrieved, retr_exc, response, svc_exc, llm_calls, http, cvars, svars>>

\* query_documents answers: the QueryResponse, or the HTTPException of its
\* except clauses
Respond ==
  /\ pc \in {"generated", "failed"}
  /\ http' = QueryStatus(IF pc = "failed" THEN Raised(retr_exc) ELSE gen)
  /\ pc' = "done"
  /\ UNCHANGED <<api_key, client, retrieved, retr_exc, response, svc_exc, llm_calls, gen, cvars, svars>>

\* the next request to /query
NewQuery ==
  /\ pc = "done"
  /\ pc' = "start"
  /\ retrieved' = <<>>
  /\ retr_exc' = ""
  /\ response' = NoResponse
  /\ svc_exc' = ""
  /\ llm_calls' = 0
  /\ gen' = NoOutcome
  /\ http' = 0
  /\ UNCHANGED <<api_key, client, cvars, svars>>

Next ==
  \/ Retrieve
  \/ RetrieveFails
  \/ GenerateEarlyExit
  \/ CallService
  \/ CallServiceFails
  \/ ParseResponse
  \/ Respond
  \/ NewQuery

Spec == Init /\ [][Next]_vars

\* ------------------------------------------------------------ properties
\* generate has ended for this query (returned or raised)
GenerateEnded == pc \in {"generated", "done"} /\ retr_exc = ""

\* the service returned a completion text and generate has dealt with it
CompletionHandled == GenerateEnded /\ response.kind = "text"

RetrievedIds == {retrieved[i].chunk_id : i \in 1..Len(retrieved)}

\* the chunk of the retrieved list that carries chunk_id
RetrievedChunkOf(chunk_id) ==
  CHOOSE c \in {retrieved[i] : i \in 1..Len(retrieved)} : c.chunk_id = chunk_id

\* what the code reads the completion as
Loaded == JsonLoads(StripFence(Strip(response.text)))

\* the completion parsed to an object whose sources are a list of objects
WellFormedPayload ==
  /\ CompletionHandled
  /\ Loaded.ok
  /\ Loaded.value.kind = "object"
  /\ ("sources" \in Loaded.value.has => Loaded.value.sources_kind = "list")
  /\ \A i \in 1..Len(Loaded.value.sources) : Loaded.value.sources[i].kind = "dict"

\* the payload sources that cite a retrieved chunk, in payload order
CitedValid ==
  SelectSeq(Loaded.value.sources, LAMBDA src : src.chunk_id \in RetrievedIds)

\* C1: every SourceReference of a returned result has a chunk_id that was
\* retrieved for this query; a payload source citing any other id is absent
\* from the result.
C1_SourcesAreRetrieved ==
  gen.status = "return" =>
    \A i \in 1..Len(gen.sources) : gen.sources[i].chunk_id \in RetrievedIds

\* C1 witness: a completion citing a retrieved and a fabricated id was parsed
\* and only the retrieved one is in the result.
C1_Witness ==
  /\ WellFormedPayload
  /\ gen.status = "return"
  /\ Len(gen.sources) = 1
  /\ Len(Loaded.value.sources) = 2
  /\ \E i \in 1..2 : Loaded.value.sources[i].chunk_id = "bogus_id"

\* C2 (as claimed): a returned result whose answer is the refusal string has
\* no sources, and one with sources has another answer.
C2_RefusalHasNoSources ==
  gen.status = "return" =>
    /\ (gen.answer = NO_INFO_RESPONSE => gen.sources = <<>>)
    /\ (gen.sources # <<>> => gen.answer # NO_INFO_RESPONSE)

\* C3 (as claimed): in every state of the generator, generate with an empty
\* retrieved list returns the refusal with empty sources and makes no call.
C3_EmptyAlwaysRefuses ==
  (GenerateEnded /\ retrieved = <<>>) =>
    /\ gen = Returned(NO_INFO_RESPONSE, <<>>)
    /\ llm_calls = 0

\* C3 (amended): with an empty retrieved list no call to the service is ever
\* made; generate returns the refusal with empty sources when the client is
\* configured and raises the configuration error when it is not.
C3_EmptyRefusesWhenConfigured ==
  (GenerateEnded /\ retrieved = <<>>) =>
    /\ llm_calls = 0
    /\ svc_exc = ""
    /\ response = NoResponse
    /\ (client # "None" => gen = Returned(NO_INFO_RESPONSE, <<>>))
    /\ (client = "None" => gen = Raised("RuntimeError"))

\* C3 witness: a configured generator has answered an empty retrieved list.
C3_Witness ==
  /\ GenerateEnded /\ retrieved = <<>> /\ client = "Groq"
  /\ gen = Returned(NO_INFO_RESPONSE, <<>>)

\* C4: a completion that is not valid JSON once the fence is stripped yields
\* the refusal with empty sources.
C4_InvalidJsonRefuses ==
  (CompletionHandled /\ ~Loaded.ok) =>
    /\ retrieved # <<>>
    /\ gen = Returned(NO_INFO_RESPONSE, <<>>)

\* C4 witness: a JSON object behind a fence that is never closed was refused.
C4_Witness ==
  /\ CompletionHandled
  /\ \E b \in ShortBodies : b # <<PROSE>> /\ response.text = Wrap("fence_open", b)
  /\ gen = Returned(NO_INFO_RESPONSE, <<>>)

\* C5 (as claimed): whatever text the service returns, generate returns an
\* AnswerResult and the query is answered with it.
C5_MalformedNeverRaises ==
  CompletionHandled =>
    /\ gen.status = "return"
    /\ (pc = "done" => http = HTTP_200_OK)

\* C6 (as claimed): a SourceReference carries the document_name and is_section
\* of the retrieved chunk with its chunk_id.
C6_NameAndSectionFromChunk ==
  gen.status = "return" =>
    \A i \in 1..Len(gen.sources) :
      gen.sources[i].chunk_id \in RetrievedIds =>
        /\ gen.sources[i].document_name =
             RetrievedChunkOf(gen.sources[i].chunk_id).document_name
        /\ gen.sources[i].is_section =
             RetrievedChunkOf(gen.sources[i].chunk_id).is_section

\* C7 (as claimed): the page of a SourceReference is the payload's page when
\* given, else the page_number of the retrieved chunk.
C7_PageFromPayloadOrChunk ==
  (WellFormedPayload /\ gen.status = "return" /\ Len(gen.sources) = Len(CitedValid)) =>
    \A i \in 1..Len(gen.sources) :
      gen.sources[i].page =
        IF "page" \in CitedValid[i].has
          THEN CitedValid[i].page
          ELSE RetrievedChunkOf(CitedValid[i].chunk_id).page_number

\* C8: a parsed completion with a non-refusal answer and no source that cites
\* a retrieved chunk keeps its answer and has empty sources.
C8_UnsourcedAnswerKept ==
  (/\ WellFormedPayload
   /\ "answer" \in Loaded.value.has
   /\ Loaded.value.answer # NO_INFO_RESPONSE
   /\ CitedValid = <<>>) =>
    gen = Returned(Loaded.value.answer, <<>>)

\* C8 witness: an answer whose only source cites a fabricated id was returned.
C8_Witness ==
  /\ WellFormedPayload
  /\ Loaded.value.answer = "Paris."
  /\ Len(Loaded.value.sources) = 1
  /\ Loaded.value.sources[1].chunk_id = "bogus_id"
  /\ gen = Returned("Paris.", <<>>)

\* C9 (as claimed): an unset credential makes generate raise without a call
\* and the query answer 503; a failure of the index or of the service is
\* never answered with 503.
C9_ServiceUnavailableOnlyForConfig ==
  /\ (GenerateEnded /\ client = "None") =>
        /\ gen = Raised("RuntimeError")
        /\ llm_calls = 0
  /\ (pc = "done" /\ client = "None" /\ retr_exc = "") =>
        http = HTTP_503_SERVICE_UNAVAILABLE
  /\ (pc = "done" /\ client # "None" /\ (retr_exc # "" \/ svc_exc # "")) =>
        http # HTTP_503_SERVICE_UNAVAILABLE

\* C10: the service is called at most once per query, and when the call fails
\* generate raises that same failure and returns no result.
C10_NoRetryAndPropagate ==
  /\ llm_calls <= 1
  /\ (retrieved = <<>> => llm_calls = 0)
  /\ (GenerateEnded /\ svc_exc # "") =>
        /\ gen = Raised(svc_exc)
        /\ llm_calls = 1
        /\ response = NoResponse

\* C10 witness: the one call failed and generate raised that failure.
C10_Witness ==
  /\ GenerateEnded /\ retrieved # <<>>
  /\ svc_exc = "APIConnectionError"
  /\ gen = Raised("APIConnectionError")

\* ------------------------------------------------------------- the chunker
\* A text is a sequence of one-character strings; Python positions are
\* 0-based, so text[i] of the code is text[i + 1] here.

\* longest page text enumerated character by character
MaxTextLen == 5
\* most pages in one chunk_pages call
MaxPages == 2
\* iterations of the while loop followed for one page
MaxIters == 4
\* most chunk_pages calls followed on one chunker
MaxRuns == 2

\* the defaults of Settings, and the search window of _find_boundary
DEFAULT_CHUNK_SIZE == 500
DEFAULT_CHUNK_OVERLAP == 50
BoundaryWindow == 50

PyMax(a, b) == IF a >= b THEN a ELSE b
PyMin(a, b) == IF a <= b THEN a ELSE b

\* what str.strip() removes, and what the word fallback stops at (" \n\t")
WhitespaceChars == {" ", "\n", "\t"}
WordStops == {" ", "\n", "\t"}

\* sentence_ends of _find_boundary, each two characters long
SentenceEnds ==
  {<<".", " ">>, <<"!", " ">>, <<"?", " ">>, <<".", "\n">>, <<"!", "\n">>, <<"?", "\n">>}

\* a slice bound of Python, brought into 0..len
SliceBound(i, n) == IF i < 0 THEN PyMax(0, i + n) ELSE PyMin(i, n)

\* s[lo:hi]
PySlice(s, lo, hi) ==
  LET l == SliceBound(lo, Len(s))
      h == SliceBound(hi, Len(s))
  IN  IF h <= l THEN <<>> ELSE SubSeq(s, l + 1, h)

\* s.strip() on a text
StrStrip(s) ==
  LET keep == {i \in 1..Len(s) : s[i] \notin WhitespaceChars}
  IN  IF keep = {} THEN <<>> ELSE SubSeq(s, SetMin(keep), SetMax(keep))

\* s.rfind(marker, 0, stop) for a two-character marker: -1 when not found
Rfind(s, marker, stop) ==
  LET e == SliceBound(stop, Len(s))
      hits == {i \in 0..(e - 2) : <<s[i + 1], s[i + 2]>> = marker}
  IN  IF hits = {} THEN 0 - 1 ELSE SetMax(hits)

\* the word fallback of _find_boundary: walk to the next whitespace.
\* text[word_end] raises IndexError when word_end < -len(text)
RECURSIVE WordEnd(_, _)
WordEnd(s, word_end) ==
  IF word_end >= Len(s) THEN [ok |-> TRUE, pos |-> word_end]
  ELSE IF word_end < 0 - Len(s) THEN [ok |-> FALSE, pos |-> word_end]
  ELSE LET c == s[(IF word_end < 0 THEN word_end + Len(s) ELSE word_end) + 1]
       IN  IF c \in WordStops THEN [ok |-> TRUE, pos |-> word_end]
           ELSE WordEnd(s, word_end + 1)

\* TextChunker._find_boundary: [ok, pos]; ok is FALSE when it raises IndexError
find_boundary(s, position) ==
  LET search_start == PyMax(0, position - BoundaryWindow)
      search_end == PyMin(Len(s), position + BoundaryWindow)
      search_text == PySlice(s, search_start, search_end)
      found == {m \in SentenceEnds :
                  Rfind(search_text, m, position - search_start + BoundaryWindow) # 0 - 1}
      breaks == {search_start
                   + Rfind(search_text, m, position - search_start + BoundaryWindow) + 2 :
                 m \in found}
  IN  IF breaks # {} /\ SetMax(breaks) # 0
        THEN [ok |-> TRUE, pos |-> SetMax(breaks)]
        ELSE WordEnd(s, position)

\* str(n) for 0 <= n <= 99
DigitChar == <<"0", "1", "2", "3", "4", "5", "6", "7", "8", "9">>
Digits(n) ==
  IF n < 10 THEN <<DigitChar[n + 1]>>
  ELSE <<DigitChar[(n \div 10) + 1], DigitChar[(n % 10) + 1]>>

\* hashlib.md5(base).hexdigest()[:8]: a function of base alone that cannot
\* tell all bases apart; the model's digest keeps the length of base modulo 4
Md5Hex8(base) == <<"h">> \o Digits(Len(base) % 4)

\* an id that also depends on the number of the chunk_pages call
GenerateChunkIdPerRun(document_name, page_number, index) ==
  document_name \o <<"_", "p">> \o Digits(page_number)
    \o <<"_", "c">> \o Digits(index) \o <<"_">> \o Digits(ck_run)

\* an id that leaves the page number out
GenerateChunkIdNoPage(document_name, page_number, index) ==
  document_name \o <<"_", "c">> \o Digits(index) \o <<"_">>
    \o Md5Hex8(document_name \o <<"_", "c", "h", "u", "n", "k">> \o Digits(index))

\* TextChunker._generate_chunk_id
generate_chunk_id(document_name, page_number, index) ==
  LET base == document_name \o <<"_", "p", "a", "g", "e">> \o Digits(page_number)
                \o <<"_", "c", "h", "u", "n", "k">> \o Digits(index)
  IN  document_name \o <<"_", "p">> \o Digits(page_number)
        \o <<"_", "c">> \o Digits(index) \o <<"_">> \o Md5Hex8(base)

\* a TextChunk that forgets is_section
TextChunkNoSection(document_name, page_number, chunk_id, chunk_text, is_section) ==
  [document_name |-> document_name, page_number |-> page_number,
   chunk_id |-> chunk_id, text |-> chunk_text, is_section |-> FALSE]

\* TextChunk(...)
TextChunk(document_name, page_number, chunk_id, chunk_text, is_section) ==
  [document_name |-> document_name, page_number |-> page_number,
   chunk_id |-> chunk_id, text |-> chunk_text, is_section |-> is_section]

\* "x or default" of __init__: None and 0 both give the default
PyOr(arg, default) == IF ~arg.given \/ arg.value = 0 THEN default ELSE arg.value

\* a test that takes only the empty text for blank
IsBlankEmptyOnly(page_text) == page_text = <<>>

\* not text or not text.strip()
IsBlank(page_text) == page_text = <<>> \/ StrStrip(page_text) = <<>>

\* the test without the equal case
FitsOneChunkStrict(s, size) == Len(s) < size

\* len(text) <= self.chunk_size
FitsOneChunk(s, size) == Len(s) <= size

\* the slice taken as it is
WindowTextRaw(s, lo, hi) == PySlice(s, lo, hi)

\* text[start:end].strip()
WindowText(s, lo, hi) == StrStrip(PySlice(s, lo, hi))

\* one iteration of the while loop of _chunk_text, from its window start:
\* the end it settles on, the chunk text, the next start, and whether the
\* loop stops after it (the break, or the while condition)
WindowStep(s, from, size, overlap) ==
  LET end0 == from + size
      fb == IF end0 < Len(s) THEN find_boundary(s, end0) ELSE [ok |-> TRUE, pos |-> end0]
      end == IF end0 < Len(s) /\ fb.ok /\ fb.pos > from THEN fb.pos ELSE end0
      next_start == end - overlap
  IN  [ok |-> fb.ok,
       end |-> end,
       chunk_text |-> WindowText(s, from, end),
       next_start |-> next_start,
       stop |-> (next_start >= Len(s) - 1) \/ ~(next_start < Len(s))]

\* ------------------------------------------------------ chunker inputs
Given(n) == [given |-> TRUE, value |-> n]
NotGiven == [given |-> FALSE, value |-> 0]
CtorArgs(size, overlap) == [chunk_size |-> size, chunk_overlap |-> overlap]

DefaultSettings ==
  [chunk_size |-> DEFAULT_CHUNK_SIZE, chunk_overlap |-> DEFAULT_CHUNK_OVERLAP]
\* CHUNK_SIZE=3 and CHUNK_OVERLAP=0 set in the environment
EnvSettings == [chunk_size |-> 3, chunk_overlap |-> 0]

\* the settings and constructor arguments a chunker is built with
Configs ==
  { [settings |-> DefaultSettings, args |-> a] :
      a \in { CtorArgs(NotGiven, NotGiven),
              CtorArgs(Given(2), Given(1)),
              CtorArgs(Given(3), Given(1)),
              CtorArgs(Given(3), Given(2)),
              CtorArgs(Given(2), Given(2)),
              CtorArgs(Given(2), Given(0)),
              CtorArgs(Given(3), NotGiven) } }
  \cup
  { [settings |-> EnvSettings, args |-> a] :
      a \in { CtorArgs(NotGiven, NotGiven),
              CtorArgs(Given(2), NotGiven),
              CtorArgs(Given(2), Given(0)) } }

\* document names as the loader passes them on; is_section goes with the
\* file type (DOCX sections, PDF / TXT pages)
DocA == <<"a">>
DocB == <<"a", "_", "p", "1">>
DocIsSection(name) == name = DocB

DocumentPage(document_name, page_number, page_text) ==
  [document_name |-> document_name, page_number |-> page_number,
   text |-> page_text, is_section |-> DocIsSection(document_name)]

\* page texts enumerated character by character
CharTexts == SeqsUpTo({"a", " ", "."}, MaxTextLen)

\* one word longer than the smallest chunk size plus the search window
LongWord == [i \in 1..(2 + BoundaryWindow + 1) |-> "a"]

\* a text whose sentence ends at a line break
NewlineText == <<"a", "a", ".", "\n", "a", "a">>

PageTexts == CharTexts \cup {LongWord, NewlineText}

\* texts of the pages of a call with several pages
ShortTexts == {<<"a">>, <<" ">>, <<"a", "a", " ", "a">>}

PageKeys == {<<DocA, 1>>, <<DocA, 2>>, <<DocB, 1>>}

\* the page lists given to chunk_pages: one page with any text, or up to
\* MaxPages pages with short texts (two pages may carry the same document
\* name and page number)
PageLists ==
  { <<DocumentPage(DocA, 1, t)>> : t \in PageTexts }
  \cup SeqsUpTo({DocumentPage(k[1], k[2], t) : k \in PageKeys, t \in ShortTexts}, MaxPages)

\* ------------------------------------------------------ chunker actions
\* the query handler takes no part in chunking
QueryUnused ==
  /\ pc = "unused"
  /\ api_key = ""
  /\ client = "None"
  /\ retrieved = <<>>
  /\ retr_exc = ""
  /\ response = NoResponse
  /\ svc_exc = ""
  /\ llm_calls = 0
  /\ gen = NoOutcome
  /\ http = 0

\* TextChunker.__init__ for each configuration, and the pages to chunk
ChunkInit ==
  /\ QueryUnused
  /\ StoreUnused
  /\ \E cfg \in Configs :
       /\ settings = cfg.settings
       /\ ctor_args = cfg.args
       /\ chunk_size = PyOr(cfg.args.chunk_size, cfg.settings.chunk_size)
       /\ chunk_overlap = PyOr(cfg.args.chunk_overlap, cfg.settings.chunk_overlap)
  /\ pages \in PageLists
  /\ ck_pc = "ready"
  /\ page_i = 0
  /\ text = <<>>
  /\ start = 0
  /\ chunk_index = 0
  /\ all_chunks = <<>>
  /\ spans = <<>>
  /\ iters = 0
  /\ ck_exc = ""
  /\ ck_run = 0
  /\ prev_chunks = <<>>

\* the fields of the chunker object and the caller's pages
ChunkerConfig == <<settings, ctor_args, chunk_size, chunk_overlap, pages>>

\* chunk_pages(pages) is called (again, once the call before has returned)
ChunkPagesCall ==
  /\ ck_pc \in {"ready", "done"}
  /\ ck_run < MaxRuns
  /\ ck_run' = ck_run + 1
  /\ prev_chunks' = all_chunks
  /\ all_chunks' = <<>>
  /\ spans' = <<>>
  /\ page_i' = 1
  /\ ck_pc' = "page"
  /\ UNCHANGED <<text, start, chunk_index, iters, ck_exc, ChunkerConfig, qvars, svars>>

\* _chunk_text on a page that is empty or only whitespace: no chunk
PageBlank ==
  /\ ck_pc = "page" /\ page_i <= Len(pages)
  /\ IsBlank(pages[page_i].text)
  /\ page_i' = page_i + 1
  /\ UNCHANGED <<ck_pc, text, start, chunk_index, all_chunks, spans, iters, ck_exc,
                 ck_run, prev_chunks, ChunkerConfig, qvars, svars>>

\* _chunk_text on a page that fits one chunk
PageSingle ==
  /\ ck_pc = "page" /\ page_i <= Len(pages)
  /\ LET page == pages[page_i]
         stripped == StrStrip(page.text)
     IN  /\ ~IsBlank(page.text)
         /\ FitsOneChunk(stripped, chunk_size)
         /\ all_chunks' = Append(all_chunks,
              TextChunk(page.document_name, page.page_number,
                        generate_chunk_id(page.document_name, page.page_number, 0),
                        stripped, page.is_section))
         /\ spans' = Append(spans, [page |-> page_i, index |-> 0, lo |-> 0,
                                    hi |-> Len(stripped), len |-> Len(stripped)])
  /\ page_i' = page_i + 1
  /\ UNCHANGED <<ck_pc, text, start, chunk_index, iters, ck_exc, ck_run, prev_chunks,
                 ChunkerConfig, qvars, svars>>

\* _chunk_text on a longer page: the sliding window starts
PageEnterLoop ==
  /\ ck_pc = "page" /\ page_i <= Len(pages)
  /\ LET stripped == StrStrip(pages[page_i].text)
     IN  /\ ~IsBlank(pages[page_i].text)
         /\ ~FitsOneChunk(stripped, chunk_size)
         /\ text' = stripped
  /\ start' = 0
  /\ chunk_index' = 0
  /\ iters' = 0
  /\ ck_pc' = "loop"
  /\ UNCHANGED <<page_i, all_chunks, spans, ck_exc, ck_run, prev_chunks,
                 ChunkerConfig, qvars, svars>>

\* one iteration of the while loop
LoopIteration ==
  /\ ck_pc = "loop"
  /\ iters < MaxIters
  /\ LET page == pages[page_i]
         step == WindowStep(text, start, chunk_size, chunk_overlap)
     IN  /\ step.ok
         /\ IF step.chunk_text # <<>>
              THEN /\ all_chunks' = Append(all_chunks,
                        TextChunk(page.document_name, page.page_number,
                                  generate_chunk_id(page.document_name, page.page_number,
                                                    chunk_index),
                                  step.chunk_text, page.is_section))
                   /\ spans' = Append(spans, [page |-> page_i, index |-> chunk_index,
                                              lo |-> start, hi |-> step.end,
                                              len |-> Len(text)])
                   /\ chunk_index' = chunk_index + 1
              ELSE UNCHANGED <<all_chunks, spans, chunk_index>>
         /\ start' = step.next_start
         /\ iters' = iters + 1
         /\ IF step.stop
              THEN /\ ck_pc' = "page"
                   /\ page_i' = page_i + 1
                   /\ text' = <<>>
              ELSE UNCHANGED <<ck_pc, page_i, text>>
  /\ UNCHANGED <<ck_exc, ck_run, prev_chunks, ChunkerConfig, qvars, svars>>

\* _find_boundary indexes the text out of range: chunk_pages raises
LoopRaises ==
  /\ ck_pc = "loop"
  /\ iters < MaxIters
  /\ ~WindowStep(text, start, chunk_size, chunk_overlap).ok
  /\ ck_exc' = "IndexError"
  /\ ck_pc' = "raised"
  /\ UNCHANGED <<page_i, text, start, chunk_index, all_chunks, spans, iters, ck_run,
                 prev_chunks, ChunkerConfig, qvars, svars>>

\* chunk_pages returns all_chunks
ChunkPagesReturn ==
  /\ ck_pc = "page" /\ page_i > Len(pages)
  /\ ck_pc' = "done"
  /\ UNCHANGED <<page_i, text, start, chunk_index, all_chunks, spans, iters, ck_exc,
                 ck_run, prev_chunks, ChunkerConfig, qvars, svars>>

ChunkNext ==
  \/ ChunkPagesCall
  \/ PageBlank
  \/ PageSingle
  \/ PageEnterLoop
  \/ LoopIteration
  \/ LoopRaises
  \/ ChunkPagesReturn

SpecChunk == ChunkInit /\ [][ChunkNext]_vars

\* --------------------------------------------------- chunker properties
ValidConfig == 0 <= chunk_overlap /\ chunk_overlap < chunk_size

ChunkTexts == {all_chunks[i].text : i \in 1..Len(all_chunks)}

\* C11: a configuration that does not satisfy chunk_size > overlap >= 0 is
\* rejected before any page is chunked: under such a configuration the
\* sliding-window loop is never entered and no chunk is ever emitted.
C11_InvalidConfigRejected ==
  ~ValidConfig => (ck_pc # "loop" /\ all_chunks = <<>>)

\* C12: under a valid configuration the window start strictly advances on
\* every iteration of the sliding-window loop that does not stop the loop.
C12_StartAdvances ==
  [][(ck_pc = "loop" /\ ck_pc' = "loop" /\ iters' = iters + 1 /\ ValidConfig)
       => start' > start]_vars

\* C13: under a valid configuration no emitted chunk is longer than
\* chunk_size plus the 50 characters of the boundary search window.
C13_LengthWithinSlack ==
  ValidConfig => \A t \in ChunkTexts : Len(t) <= chunk_size + BoundaryWindow

\* C14: no chunk produced by chunk_pages is longer than chunk_size.
C14_LengthWithinChunkSize ==
  \A t \in ChunkTexts : Len(t) <= chunk_size

\* the positions in all_chunks of the chunks emitted for page p in this call
ChunksOfPage(p) == {i \in 1..Len(spans) : spans[i].page = p}

\* page p has been chunked to its end in this call
PageFinished(p) == ck_run >= 1 /\ ck_pc \in {"page", "loop", "raised", "done"} /\ p < page_i

\* page p is the page being chunked
PageCurrent(p) == ck_run >= 1 /\ ck_pc \in {"page", "loop", "raised"} /\ p = page_i

Trimmed(p) == StrStrip(pages[p].text)

\* C15: a page whose trimmed text is non-empty and no longer than
\* chunk_size is chunked in one step, without the sliding window, into
\* exactly one chunk whose text is the trimmed page text and whose index is 0.
C15_SmallPageOneChunk ==
  \A p \in 1..Len(pages) :
    (Trimmed(p) # <<>> /\ Len(Trimmed(p)) <= chunk_size)
      => /\ PageCurrent(p) => (ck_pc = "page" /\ ChunksOfPage(p) = {})
         /\ PageFinished(p) =>
              /\ Cardinality(ChunksOfPage(p)) = 1
              /\ \A i \in ChunksOfPage(p) :
                   /\ all_chunks[i].text = Trimmed(p)
                   /\ spans[i].index = 0
                   /\ all_chunks[i].chunk_id =
                        generate_chunk_id(pages[p].document_name, pages[p].page_number, 0)

\* a call has returned for a page that needed trimming and whose trimmed
\* text is exactly chunk_size long
C15_Witness ==
  /\ ck_pc = "done"
  /\ \E p \in 1..Len(pages) :
       /\ Trimmed(p) # pages[p].text
       /\ Len(Trimmed(p)) = chunk_size
       /\ ChunksOfPage(p) # {}

\* C16 as stated: the chunk_ids of one chunk_pages call are pairwise
\* distinct, whatever the list of pages.
C16_IdsDistinct ==
  \A i, j \in 1..Len(all_chunks) :
    i # j => all_chunks[i].chunk_id # all_chunks[j].chunk_id

\* no two pages of the list carry the same document name and page number
DistinctPageKeys ==
  \A p, q \in 1..Len(pages) :
    p # q => <<pages[p].document_name, pages[p].page_number>>
               # <<pages[q].document_name, pages[q].page_number>>

\* C16 amended: when the pages of the list have pairwise distinct
\* (document_name, page_number), the chunk_ids emitted by one chunk_pages
\* call are pairwise distinct.
C16_IdsDistinctForDistinctPages ==
  DistinctPageKeys => C16_IdsDistinct

\* a call over two pages of one document that emitted several chunks for
\* one page and chunks of equal index for different pages
C16_Witness ==
  /\ ck_pc = "done"
  /\ DistinctPageKeys
  /\ \E i, j \in 1..Len(all_chunks) :
       /\ spans[i].page = spans[j].page
       /\ spans[i].index # spans[j].index
  /\ \E i, j \in 1..Len(all_chunks) :
       /\ spans[i].page # spans[j].page
       /\ spans[i].index = spans[j].index
       /\ all_chunks[i].document_name = all_chunks[j].document_name

\* the chunks of a repeated call agree, position by position, with those the
\* call before returned
RepeatsPreviousCall ==
  ck_run >= 2 =>
    /\ Len(all_chunks) <= Len(prev_chunks)
    /\ \A i \in 1..Len(all_chunks) : all_chunks[i] = prev_chunks[i]
    /\ ck_pc = "done" => all_chunks = prev_chunks

\* chunks of the same document name, page number and index carry the same id
SameTripleSameId ==
  \A i, j \in 1..Len(all_chunks) :
    ( /\ all_chunks[i].document_name = all_chunks[j].document_name
      /\ all_chunks[i].page_number = all_chunks[j].page_number
      /\ spans[i].index = spans[j].index )
      => all_chunks[i].chunk_id = all_chunks[j].chunk_id

C18_ChunkTextTrimmed ==
  \A t \in ChunkTexts :
    /\ t # <<>>
    /\ t[1] \notin WhitespaceChars
    /\ t[Len(t)] \notin WhitespaceChars
    /\ \E k \in 1..Len(t) : t[k] \notin WhitespaceChars

\* a call has returned a chunk that the sliding window cut with whitespace
\* at an edge of its slice
C18_Witness ==
  /\ ck_pc = "done"
  /\ \E i \in 1..Len(all_chunks) :
       /\ spans[i].len > chunk_size
       /\ PySlice(Trimmed(spans[i].page), spans[i].lo, spans[i].hi) # all_chunks[i].text

\* C19: under a valid configuration the spans [lo, hi) of the chunks emitted
\* for a finished page cover its trimmed text without gaps: the first span
\* starts at 0, each later span starts no later than the span before it
\* ends, and the last span reaches the end of the text.
C19_SpansCoverText ==
  \A p \in 1..Len(pages) :
    (ValidConfig /\ PageFinished(p) /\ Trimmed(p) # <<>>)
      => LET own == ChunksOfPage(p)
         IN  /\ own # {}
             /\ spans[SetMin(own)].lo = 0
             /\ \A i \in own : (i + 1) \in own => spans[i + 1].lo <= spans[i].hi
             /\ spans[SetMax(own)].hi >= Len(Trimmed(p))

\* C20: every chunk carries the document_name, page_number and is_section
\* of the page it was cut from, and the chunks stand in page order, by
\* increasing index within a page.
C20_MetadataAndOrder ==
  /\ Len(spans) = Len(all_chunks)
  /\ \A i \in 1..Len(all_chunks) :
       /\ spans[i].page \in 1..Len(pages)
       /\ all_chunks[i].document_name = pages[spans[i].page].document_name
       /\ all_chunks[i].page_number = pages[spans[i].page].page_number
       /\ all_chunks[i].is_section = pages[spans[i].page].is_section
  /\ \A i, j \in 1..Len(all_chunks) :
       i < j => \/ spans[i].page < spans[j].page
                \/ (spans[i].page = spans[j].page /\ spans[i].index < spans[j].index)

\* a call has returned chunks of a section document and of a page document,
\* several of them from one page
C20_Witness ==
  /\ ck_pc = "done"
  /\ \E i, j \in 1..Len(all_chunks) :
       /\ spans[i].page # spans[j].page
       /\ all_chunks[i].is_section /\ ~all_chunks[j].is_section
       /\ all_chunks[i].document_name # all_chunks[j].document_name
  /\ \E i, j \in 1..Len(all_chunks) :
       spans[i].page = spans[j].page /\ spans[i].index # spans[j].index

\* ------------------------------------------------- the store and retrieval
\* The collection is a set of records, one per chunk id; a record's metadata
\* is a record that lists its present keys in "has".

\* largest top_k asked of the index
MaxTopK == 2

UNKNOWN == <<"u", "n", "k", "n", "o", "w", "n">>

\* a float, and Python's None in the place of one
Float(n) == [null |-> FALSE, value |-> n]
NoneValue == [null |-> TRUE, value |-> 0]

MetadataKeys == {"document_name", "page_number", "chunk_id", "is_section"}

\* TextChunk.to_metadata
ToMetadata(chunk) ==
  [has |-> MetadataKeys, document_name |-> chunk.document_name,
   page_number |-> chunk.page_number, is_section |-> chunk.is_section]

\* the record collection.add stores for a chunk
StoredRecord(chunk) ==
  [chunk_id |-> chunk.chunk_id, text |-> chunk.text, metadata |-> ToMetadata(chunk)]

\* records already in the persist directory when the store is opened, written
\* without all of today's metadata fields
LegacyNoSection ==
  [chunk_id |-> generate_chunk_id(DocA, 3, 0), text |-> <<"o">>,
   metadata |-> [has |-> {"document_name", "page_number", "chunk_id"},
                 document_name |-> DocA, page_number |-> 3, is_section |-> FALSE]]
LegacyNoName ==
  [chunk_id |-> generate_chunk_id(<<"z">>, 1, 0), text |-> <<"o">>,
   metadata |-> [has |-> {"chunk_id"},
                 document_name |-> <<>>, page_number |-> 0, is_section |-> FALSE]]

PersistedCollections == { {}, {LegacyNoSection, LegacyNoName} }

\* the documents a client uploads, and the names it asks to delete
UploadNames == {DocA, DocB}
DocC == <<"b">>
DeleteNames == {DocA, DocB, DocC}

\* the (page_number, index) of the chunks chunk_pages returns for an upload
UploadShapes ==
  { <<>>, << <<1, 0>> >>, << <<1, 0>>, <<1, 1>> >> }

\* the chunks of an upload, as upload_document gets them from chunk_pages
UploadedChunks(name, shape) ==
  [i \in 1..Len(shape) |->
     TextChunk(name, shape[i][1], generate_chunk_id(name, shape[i][1], shape[i][2]),
               <<"t">>, DocIsSection(name))]

Ids(records) == {r.chunk_id : r \in records}

\* collection.get(where={"document_name": name})
WhereDocument(records, name) ==
  {r \in records : "document_name" \in r.metadata.has /\ r.metadata.document_name = name}

\* a listing that names every document a client may ask for
GetAllDocumentsAnyName(records) == DeleteNames

\* VectorStore.get_all_documents
get_all_documents(records) ==
  {r.metadata.document_name : r \in {x \in records : "document_name" \in x.metadata.has}}

\* VectorStore.get_document_chunks
get_document_chunks(records, name) == WhereDocument(records, name)

\* a delete that takes every record whose id begins with the name
DeleteByNamePrefix(records, name) ==
  [count |-> Cardinality(get_document_chunks(records, name)),
   records |-> {r \in records :
                  ~(Len(r.chunk_id) >= Len(name)
                      /\ SubSeq(r.chunk_id, 1, Len(name)) = name)}]

\* VectorStore.delete_document: the count it returns and the records left
delete_document(records, name) ==
  LET chunks == get_document_chunks(records, name)
      chunk_ids == Ids(chunks)
  IN  [count |-> Cardinality(chunks),
       records |-> {r \in records : r.chunk_id \notin chunk_ids}]

\* what collection.query can answer for n_results = k and a where filter:
\* the k nearest matching records (all of them when fewer match), nearest
\* first; which records are nearest is the embedding model's affair
NoFilter == <<>>
QueryAnswers(records, k, filter_doc) ==
  LET matching == IF filter_doc = NoFilter THEN records
                  ELSE WhereDocument(records, filter_doc)
      n == PyMin(k, Cardinality(matching))
  IN  {q \in [1..n -> matching] : NoRepeat(q)}

ResultKeys == {"chunk_id", "text", "metadata", "distance"}

\* VectorStore.search, from the answer of collection.query: one dict per
\* hit, the distance None when the answer carries no distances
search(answer, has_distances) ==
  [i \in 1..Len(answer) |->
     [has |-> ResultKeys,
      chunk_id |-> answer[i].chunk_id,
      text |-> answer[i].text,
      metadata |-> answer[i].metadata,
      distance |-> IF has_distances THEN Float(i) ELSE NoneValue]]

EmptyMetadata ==
  [has |-> {}, document_name |-> <<>>, page_number |-> 0, is_section |-> FALSE]

\* RetrievedChunk(...) built from one result of search
ToRetrievedChunk(result) ==
  LET metadata == DictGet(result, "metadata", EmptyMetadata)
  IN  [document_name |-> DictGet(metadata, "document_name", UNKNOWN),
       page_number |-> DictGet(metadata, "page_number", 0),
       chunk_id |-> DictGet(result, "chunk_id", UNKNOWN),
       text |-> DictGet(result, "text", <<>>),
       score |-> DictGet(result, "distance", Float(1)),
       is_section |-> DictGet(metadata, "is_section", FALSE)]

\* a retrieve that returns the chunks in the opposite order
RetrieveReversed(results) ==
  [i \in 1..Len(results) |-> ToRetrievedChunk(results[Len(results) + 1 - i])]

\* the loop of Retriever.retrieve over the results of search
retrieve(results) ==
  [i \in 1..Len(results) |-> ToRetrievedChunk(results[i])]

OpRecord(kind, name, http_status, count) ==
  [kind |-> kind, name |-> name, status |-> http_status, count |-> count]

HTTP_404_NOT_FOUND == 404

\* ------------------------------------------------------------ store actions
StoreInit ==
  /\ QueryUnused
  /\ ChunkerUnused
  /\ collection \in PersistedCollections
  /\ prev_collection = collection
  /\ last_op = OpRecord("none", <<>>, 0, 0)
  /\ index_results = <<>>
  /\ retrieve_out = <<>>

\* POST /documents/upload whose chunks are all new to the collection
UploadDocument ==
  \E name \in UploadNames, shape \in UploadShapes :
    LET chunks == UploadedChunks(name, shape)
        added == {StoredRecord(chunks[i]) : i \in 1..Len(chunks)}
    IN  /\ Ids(added) \cap Ids(collection) = {}
        /\ prev_collection' = collection
        /\ collection' = collection \cup added
        /\ last_op' = OpRecord("upload", name, HTTP_200_OK, Len(chunks))
        /\ index_results' = <<>>
        /\ retrieve_out' = <<>>
        /\ UNCHANGED <<qvars, cvars>>

\* POST /documents/upload with ids the collection already holds, on an index
\* that keeps the stored records and adds only the new ids
UploadExistingIgnored ==
  \E name \in UploadNames, shape \in UploadShapes :
    LET chunks == UploadedChunks(name, shape)
        added == {StoredRecord(chunks[i]) : i \in 1..Len(chunks)}
    IN  /\ Ids(added) \cap Ids(collection) # {}
        /\ prev_collection' = collection
        /\ collection' = collection \cup {r \in added : r.chunk_id \notin Ids(collection)}
        /\ last_op' = OpRecord("upload", name, HTTP_200_OK, Len(chunks))
        /\ index_results' = <<>>
        /\ retrieve_out' = <<>>
        /\ UNCHANGED <<qvars, cvars>>

\* POST /documents/upload with ids the collection already holds, on an index
\* that rejects the whole add: the route answers 500
UploadExistingRejected ==
  \E name \in UploadNames, shape \in UploadShapes :
    LET chunks == UploadedChunks(name, shape)
        added == {StoredRecord(chunks[i]) : i \in 1..Len(chunks)}
    IN  /\ Ids(added) \cap Ids(collection) # {}
        /\ prev_collection' = collection
        /\ collection' = collection
        /\ last_op' = OpRecord("upload", name, HTTP_500_INTERNAL_SERVER_ERROR, 0)
        /\ index_results' = <<>>
        /\ retrieve_out' = <<>>
        /\ UNCHANGED <<qvars, cvars>>

\* DELETE /documents/{document_name} for a name get_all_documents does not list
DeleteNotFound ==
  \E name \in DeleteNames :
    /\ name \notin get_all_documents(collection)
    /\ prev_collection' = collection
    /\ collection' = collection
    /\ last_op' = OpRecord("delete", name, HTTP_404_NOT_FOUND, 0)
    /\ index_results' = <<>>
    /\ retrieve_out' = <<>>
    /\ UNCHANGED <<qvars, cvars>>

\* DELETE /documents/{document_name} for a listed name
DeleteDocument ==
  \E name \in DeleteNames :
    /\ name \in get_all_documents(collection)
    /\ LET deleted == delete_document(collection, name)
       IN  /\ prev_collection' = collection
           /\ collection' = deleted.records
           /\ last_op' = OpRecord("delete", name, HTTP_200_OK, deleted.count)
    /\ index_results' = <<>>
    /\ retrieve_out' = <<>>
    /\ UNCHANGED <<qvars, cvars>>

\* Retriever.retrieve: search the index, then build the RetrievedChunk list
RetrieveChunks ==
  \E k \in 1..MaxTopK, filter_doc \in {NoFilter} \cup UploadNames,
     has_distances \in BOOLEAN :
    \E answer \in QueryAnswers(collection, k, filter_doc) :
      /\ index_results' = search(answer, has_distances)
      /\ retrieve_out' = retrieve(index_results')
      /\ last_op' = OpRecord("retrieve", filter_doc, 0, k)
      /\ prev_collection' = collection
      /\ UNCHANGED <<collection, qvars, cvars>>

StoreNext ==
  \/ UploadDocument
  \/ UploadExistingIgnored
  \/ UploadExistingRejected
  \/ DeleteNotFound
  \/ DeleteDocument
  \/ RetrieveChunks

SpecStore == StoreInit /\ [][StoreNext]_vars

\* ---------------------------------------------- store and retrieval properties
Retrieved == last_op.kind = "retrieve"

\* C21: retrieve fills every absent field of a result record with its
\* default: document_name "unknown", page_number 0, is_section false, and
\* score 1.0 when the index supplied no distance; no score is null.
C21_DefaultsFilled ==
  Retrieved =>
    /\ Len(retrieve_out) = Len(index_results)
    /\ \A i \in 1..Len(retrieve_out) :
         LET m == index_results[i].metadata
             out == retrieve_out[i]
         IN  /\ out.document_name =
                  IF "document_name" \in m.has THEN m.document_name ELSE UNKNOWN
             /\ out.page_number = IF "page_number" \in m.has THEN m.page_number ELSE 0
             /\ out.is_section = IF "is_section" \in m.has THEN m.is_section ELSE FALSE
             /\ out.score = IF index_results[i].distance.null THEN Float(1)
                            ELSE index_results[i].distance
             /\ ~out.score.null

C23_DeleteUnknownNotFound ==
  ( /\ last_op.kind = "delete"
    /\ ~\E r \in prev_collection :
          "document_name" \in r.metadata.has /\ r.metadata.document_name = last_op.name )
    => (last_op.status = HTTP_404_NOT_FOUND /\ collection = prev_collection)

\* a delete was answered 404 on a collection that holds uploaded chunks
C23_Witness ==
  /\ last_op.kind = "delete"
  /\ last_op.status = HTTP_404_NOT_FOUND
  /\ \E r \in collection : r.metadata.document_name \in UploadNames
  /\ last_op.name \in UploadNames

\* C24: after a delete of a name, no stored chunk carries the name, the
\* chunks removed are exactly those that carried it, every other record is
\* still stored unchanged, and the count answered is the number removed.
C24_DeleteRemovesExactly ==
  (last_op.kind = "delete" /\ last_op.status = HTTP_200_OK) =>
    LET named == {r \in prev_collection :
                    "document_name" \in r.metadata.has
                      /\ r.metadata.document_name = last_op.name}
    IN  /\ collection = prev_collection \ named
        /\ ~\E r \in collection :
              "document_name" \in r.metadata.has /\ r.metadata.document_name = last_op.name
        /\ last_op.count = Cardinality(named)

\* a delete removed several chunks and left chunks of another document
C24_Witness ==
  /\ last_op.kind = "delete"
  /\ last_op.status = HTTP_200_OK
  /\ last_op.count >= 2
  /\ \E r \in collection : r.metadata.document_name \in UploadNames
  /\ LegacyNoName \in collection

\* C25: a completion that wraps a JSON payload in a fenced block, with the
\* json tag, with no tag or with another language tag, ends generate as the
\* payload alone does.
C25_FenceTransparent ==
  \A sh \in {"fence_json", "fence_plain", "fence_other"} :
    \A i \in 1..Len(response.text) :
      ( /\ CompletionHandled
        /\ response.text[i].k = "json"
        /\ response.text = Wrap(sh, <<response.text[i]>>) )
        => gen = LET out == parse_response(<<response.text[i]>>, retrieved)
                 IN  IF out.status = "raise" THEN OnGenerateError(out.exc) ELSE out

\* ------------------------------------------- chunker properties, continued
\* position hi of text s (0-based) is a place where no word is cut: the end
\* of the text, just after a sentence end, or a whitespace character
CleanEnd(s, hi) ==
  \/ hi >= Len(s)
  \/ (hi >= 2 /\ <<s[hi - 1], s[hi]>> \in SentenceEnds)
  \/ (hi >= 0 /\ s[hi + 1] \in WhitespaceChars)

\* C26: under a valid configuration, every chunk cut by the sliding window
\* ends at the end of the text, just after a sentence end, or at a whitespace
\* character, never inside a word.
C26_NoWordSplit ==
  ValidConfig =>
    \A i \in 1..Len(spans) :
      spans[i].len > chunk_size => CleanEnd(Trimmed(spans[i].page), spans[i].hi)

\* the chunks the while loop of _chunk_text emits for a page from a window
\* start on, followed for at most fuel iterations
RECURSIVE LoopChunks(_, _, _, _, _)
LoopChunks(page, s, from, index, fuel) ==
  IF fuel = 0 THEN <<>>
  ELSE LET step == WindowStep(s, from, chunk_size, chunk_overlap)
           emitted == IF step.chunk_text # <<>>
                        THEN <<TextChunk(page.document_name, page.page_number,
                                         generate_chunk_id(page.document_name,
                                                           page.page_number, index),
                                         step.chunk_text, page.is_section)>>
                        ELSE <<>>
       IN  IF ~step.ok THEN <<>>
           ELSE IF step.stop THEN emitted
           ELSE emitted \o LoopChunks(page, s, step.next_start,
                                      index + Len(emitted), fuel - 1)

\* _chunk_text as a function of one page that is not blank
ChunkTextOf(page) ==
  LET stripped == StrStrip(page.text)
  IN  IF FitsOneChunk(stripped, chunk_size)
        THEN <<TextChunk(page.document_name, page.page_number,
                         generate_chunk_id(page.document_name, page.page_number, 0),
                         stripped, page.is_section)>>
        ELSE LoopChunks(page, stripped, 0, 0, MaxIters)

\* chunk_pages as a function of a page list without blank pages
RECURSIVE ChunkPagesOf(_)
ChunkPagesOf(page_list) ==
  IF page_list = <<>> THEN <<>>
  ELSE ChunkTextOf(Head(page_list)) \o ChunkPagesOf(Tail(page_list))

HasContent(page) == StrStrip(page.text) # <<>>

\* C27: a page whose text is empty or only whitespace is passed over in one
\* step with no chunk and no error; what chunk_pages returns is what it
\* returns for the list without the blank pages (same ids, texts, order);
\* an empty page list gives an empty chunk list.
C27_BlankPagesSkipped ==
  /\ \A p \in 1..Len(pages) :
       ~HasContent(pages[p]) =>
         /\ ChunksOfPage(p) = {}
         /\ PageCurrent(p) => ck_pc = "page"
  /\ ck_pc = "done" => all_chunks = ChunkPagesOf(SelectSeq(pages, HasContent))
  /\ (ck_pc = "done" /\ pages = <<>>) => all_chunks = <<>>

\* a call has returned for a list with a whitespace-only page before a page
\* that gave chunks
C27_Witness ==
  /\ ck_pc = "done"
  /\ \E p, q \in 1..Len(pages) :
       /\ p < q
       /\ pages[p].text # <<>>
       /\ ~HasContent(pages[p])
       /\ ChunksOfPage(q) # {}

\* C28: for every document name D carried by a stored chunk, the stored ids
\* that begin with D followed by "_p" are exactly the ids of the chunks whose
\* document_name is D.
C28_PrefixSelectsDocument ==
  \A D \in get_all_documents(collection) :
    LET prefix == D \o <<"_", "p">>
    IN  {r.chunk_id : r \in {x \in collection :
                               /\ Len(x.chunk_id) >= Len(prefix)
                               /\ SubSeq(x.chunk_id, 1, Len(prefix)) = prefix}}
          = {r.chunk_id : r \in {x \in collection :
                                   /\ "document_name" \in x.metadata.has
                                   /\ x.metadata.document_name = D}}

\* the end of a span, no further than the end of the text
SpanEnd(span) == PyMin(span.hi, span.len)

\* C29: under a valid configuration, every chunk the sliding window emits
\* after the first for a page reaches beyond the end of the span of the
\* chunk before it.
C29_NoRedundantChunk ==
  ValidConfig =>
    \A i \in 1..(Len(spans) - 1) :
      (spans[i].page = spans[i + 1].page /\ spans[i].len > chunk_size)
        => SpanEnd(spans[i + 1]) > SpanEnd(spans[i])

\* C30: a chunker built with explicit arguments chunks with exactly those
\* values, an explicit chunk_overlap of 0 included; the configured defaults
\* are used only for an argument that is not given.
C30_ExplicitArgumentsKept ==
  ck_run >= 1 =>
    /\ chunk_size = IF ctor_args.chunk_size.given THEN ctor_args.chunk_size.value
                    ELSE settings.chunk_size
    /\ chunk_overlap = IF ctor_args.chunk_overlap.given THEN ctor_args.chunk_overlap.value
                       ELSE settings.chunk_overlap

====
